---- MODULE Spec2Model ----
(***************************************************************************)
(* A model of safeparser: the protected environment view (SafeEnv), the    *)
(* plugin registry (PluginStore), the syntax validator                     *)
(* (SafeCodeValidator), the environment injector (EnvironmentInjector)     *)
(* and the evaluator (Parser).                                             *)
(*                                                                         *)
(* Identifiers and dictionary keys are sequences of one-character strings, *)
(* so that startswith / endswith are computed and not looked up.  A Python *)
(* dict is a sequence of [key, val] records with distinct keys, in         *)
(* insertion order.                                                        *)
(***************************************************************************)
EXTENDS Integers, Sequences, FiniteSets, TLC

VARIABLES
    env,        \* Parser.env, also the `inner` dict of the SafeEnv wrapping it
    plugins,    \* PluginStore.plugins: a function from names to values
    pc,         \* where Parser.parse stands: "idle", "executing", "cleanup", "returned"
    content,    \* the argument of the current (or last) call of Parser.parse
    body,       \* root.body of the submission being executed
    ip,         \* index in body of the next statement Parser.execute runs
    pending,    \* the exception travelling through the finally block ("" = none)
    outcome,    \* how the last call of Parser.parse ended, see Outcome
    envBefore,  \* history: env when the current (or last) parse was called
    calls,      \* history: the plugin invocations of the current (or last) parse
    done,       \* history: per executed statement of this parse, what it did
    last        \* history: the last operation applied to a SafeEnv, see ViewOp

vars == <<env, plugins, pc, content, body, ip, pending, outcome, envBefore,
          calls, done, last>>

-----------------------------------------------------------------------------
(* Bounds of the model *)

\* the largest backing dict the SafeEnv specification starts from
MaxEntries == 3

\* the largest number of top-level statements in one submission
MaxStmts == 2

\* the largest number of pairs in the source of one SafeEnv.update
MaxPairs == 2

-----------------------------------------------------------------------------
(* Identifiers *)

U == "_"

K_a == <<"a">>
K_b == <<"b">>
K_hid == <<U, U, "h", U, U>>
K_dunder_a == <<U, U, "a", U, U>>
K_builtins == <<U, U, "b", "u", "i", "l", "t", "i", "n", "s", U, U>>
K_env == <<U, U, "e", "n", "v", U, U>>
K_kwenv == <<"e", "n", "v">>
\* '__a' and 'a__': the marker at one end only
K_ua == <<U, U, "a">>
K_au == <<"a", U, U>>

startswith(s, prefix) ==
    /\ Len(s) >= Len(prefix)
    /\ SubSeq(s, 1, Len(prefix)) = prefix

endswith(s, suffix) ==
    /\ Len(s) >= Len(suffix)
    /\ SubSeq(s, Len(s) - Len(suffix) + 1, Len(s)) = suffix

-----------------------------------------------------------------------------
(* Python values *)

IntVal(n) == [type |-> "int", int |-> n]
NoneVal == [type |-> "NoneType"]
ListVal(elts) == [type |-> "list", elts |-> elts]
Function(name) == [type |-> "function", name |-> name]
StrVal(s) == [type |-> "str", s |-> s]
\* the value prepare_environment binds to '__builtins__'
NoBuiltins == [type |-> "dict", items |-> <<>>]
\* the value prepare_environment binds to '__env__': SafeEnv(self.env)
EnvHandle == [type |-> "SafeEnv"]

-----------------------------------------------------------------------------
(* dict, in insertion order *)

Keys(d) == {d[i].key : i \in DOMAIN d}

KeyList(d) == [i \in DOMAIN d |-> d[i].key]

IndexOf(d, key) == CHOOSE i \in DOMAIN d : d[i].key = key

DictGet(d, key) == d[IndexOf(d, key)].val

\* d[key] = val: an existing key keeps its place, a new key goes last
DictSet(d, key, val) ==
    IF key \in Keys(d)
    THEN [d EXCEPT ![IndexOf(d, key)] = [key |-> key, val |-> val]]
    ELSE Append(d, [key |-> key, val |-> val])

\* del d[key], for a key of d
DictDel(d, key) ==
    LET i == IndexOf(d, key)
    IN SubSeq(d, 1, i - 1) \o SubSeq(d, i + 1, Len(d))

-----------------------------------------------------------------------------
(* SafeEnv: the protected view of a dict *)

hidden(key) == startswith(key, <<U, U>>) /\ endswith(key, <<U, U>>)

Visible(item) == ~hidden(item.key)

\* what a SafeEnv method did: the backing dict after it, the value it
\* returned, and the exception it raised ("" when it returned)
Did(inner, ret, exc) == [inner |-> inner, ret |-> ret, exc |-> exc]

UnsafeKey == "KeyError: Unsafe key"
KeyError == "KeyError"

SafeEnv_len(inner) == Cardinality({i \in DOMAIN inner : ~hidden(inner[i].key)})

SafeEnv_getitem(inner, key) ==
    IF hidden(key) THEN Did(inner, NoneVal, UnsafeKey)
    ELSE IF key \notin Keys(inner) THEN Did(inner, NoneVal, KeyError)
    ELSE Did(inner, DictGet(inner, key), "")

SafeEnv_setitem(inner, key, val) ==
    IF hidden(key) THEN Did(inner, NoneVal, UnsafeKey)
    ELSE Did(DictSet(inner, key, val), NoneVal, "")

\* a variant of __delitem__ without the test for a hidden key
SafeEnv_delitem_unguarded(inner, key) ==
    IF key \notin Keys(inner) THEN Did(inner, NoneVal, KeyError)
    ELSE Did(DictDel(inner, key), NoneVal, "")

SafeEnv_delitem(inner, key) ==
    IF hidden(key) THEN Did(inner, NoneVal, UnsafeKey)
    ELSE IF key \notin Keys(inner) THEN Did(inner, NoneVal, KeyError)
    ELSE Did(DictDel(inner, key), NoneVal, "")

\* a variant of __contains__ without the test for a hidden key
SafeEnv_contains_unfiltered(inner, key) == key \in Keys(inner)

SafeEnv_contains(inner, key) == ~hidden(key) /\ key \in Keys(inner)

SafeEnv_iter(inner) == KeyList(SelectSeq(inner, Visible))

SafeEnv_get(inner, key, default) ==
    IF hidden(key) THEN default
    ELSE IF key \in Keys(inner) THEN DictGet(inner, key) ELSE default

SafeEnv_items(inner) == SelectSeq(inner, Visible)

\* a variant of the loop of clear without the test for a hidden key
RECURSIVE clear_loop_unguarded(_, _)
clear_loop_unguarded(inner, keys) ==
    IF keys = <<>> THEN inner
    ELSE clear_loop_unguarded(DictDel(inner, Head(keys)), Tail(keys))

\* the loop of clear: for key in keys: if not hidden(key): del inner[key]
RECURSIVE clear_loop(_, _)
clear_loop(inner, keys) ==
    IF keys = <<>> THEN inner
    ELSE IF ~hidden(Head(keys)) THEN clear_loop(DictDel(inner, Head(keys)), Tail(keys))
    ELSE clear_loop(inner, Tail(keys))

SafeEnv_clear(inner) == Did(clear_loop(inner, KeyList(inner)), NoneVal, "")

\* pop(key) with val_given = FALSE, pop(key, val) with val_given = TRUE
SafeEnv_pop(inner, key, val_given, val) ==
    LET hidden_key == hidden(key)
    IN  IF val_given /\ hidden_key THEN Did(inner, val, "")
        ELSE IF val_given /\ ~hidden_key
        THEN IF key \in Keys(inner)
             THEN Did(DictDel(inner, key), DictGet(inner, key), "")
             ELSE Did(inner, val, "")
        ELSE IF ~val_given /\ hidden_key THEN Did(inner, NoneVal, UnsafeKey)
        ELSE IF key \in Keys(inner)
             THEN Did(DictDel(inner, key), DictGet(inner, key), "")
             ELSE Did(inner, NoneVal, KeyError)

\* the while loop of popitem: pops from the tail, collecting hidden items,
\* until a visible item is found or the dict is empty
RECURSIVE popitem_loop(_, _)
popitem_loop(inner, collected) ==
    IF inner = <<>>
    THEN [inner |-> inner, collected |-> collected, found |-> FALSE, result |-> NoneVal]
    ELSE LET item == inner[Len(inner)]
             rest == SubSeq(inner, 1, Len(inner) - 1)
         IN  IF hidden(item.key)
             THEN popitem_loop(rest, Append(collected, item))
             ELSE [inner |-> rest, collected |-> collected, found |-> TRUE, result |-> item]

\* a variant of the for loop of popitem that iterates over collected, not
\* over reversed(collected)
RECURSIVE popitem_putback_forward(_, _)
popitem_putback_forward(inner, collected) ==
    IF collected = <<>> THEN inner
    ELSE popitem_putback_forward(DictSet(inner, Head(collected).key, Head(collected).val),
                                 Tail(collected))

\* the for loop of popitem: inner[key] = val over reversed(collected)
RECURSIVE popitem_putback(_, _)
popitem_putback(inner, collected) ==
    IF collected = <<>> THEN inner
    ELSE LET item == collected[Len(collected)]
         IN  popitem_putback(DictSet(inner, item.key, item.val),
                             SubSeq(collected, 1, Len(collected) - 1))

SafeEnv_popitem(inner) ==
    LET l == popitem_loop(inner, <<>>)
        back == popitem_putback(l.inner, l.collected)
    IN  IF l.found THEN Did(back, l.result, "") ELSE Did(back, NoneVal, KeyError)

SafeEnv_setdefault(inner, key, default) ==
    IF hidden(key) THEN Did(inner, NoneVal, UnsafeKey)
    ELSE IF key \in Keys(inner) THEN Did(inner, DictGet(inner, key), "")
    ELSE Did(DictSet(inner, key, default), default, "")

\* a variant of process_args that keeps every pair
process_args_unfiltered(mapping, kwargs) == mapping \o kwargs

\* the pairs update applies: those of chain(mapping, kwargs.items()) whose
\* key is not hidden; mapping is a sequence of pairs or the items of a dict
process_args(mapping, kwargs) == SelectSeq(mapping \o kwargs, Visible)

RECURSIVE DictUpdate(_, _)
DictUpdate(d, pairs) ==
    IF pairs = <<>> THEN d
    ELSE DictUpdate(DictSet(d, Head(pairs).key, Head(pairs).val), Tail(pairs))

SafeEnv_update(inner, mapping, kwargs) ==
    Did(DictUpdate(inner, process_args(mapping, kwargs)), NoneVal, "")

\* __repr__, as the list of the entries it prints
SafeEnv_repr(inner) ==
    [i \in DOMAIN SafeEnv_items(inner) |->
        [key |-> SafeEnv_items(inner)[i].key,
         shown |-> IF SafeEnv_items(inner)[i].val = EnvHandle
                   THEN "SafeEnv({...})" ELSE "repr(value)"]]

-----------------------------------------------------------------------------
(* The syntax tree (Python's ast), as far as the program looks at it *)

Name(id) == [node |-> "Name", id |-> id]
Num(n) == [node |-> "Num", n |-> n]
NameConstant == [node |-> "NameConstant"]
List(elts) == [node |-> "List", elts |-> elts]
Set(elts) == [node |-> "Set", elts |-> elts]
Dict(ks, vs) == [node |-> "Dict", keys |-> ks, values |-> vs]
keyword(arg, value) == [arg |-> arg, value |-> value]
Call(func, args, keywords) ==
    [node |-> "Call", func |-> func, args |-> args, keywords |-> keywords]
Assign(targets, value) == [node |-> "Assign", targets |-> targets, value |-> value]
Expr(value) == [node |-> "Expr", value |-> value]
Module(stmts) == [node |-> "Module", body |-> stmts]
\* any node class the validator has no visit_ method for: BinOp, Attribute,
\* Subscript, Lambda, Tuple, If, For, Import, ...
Other(class) == [node |-> class]

-----------------------------------------------------------------------------
(* PluginStore *)

PluginStore_has(store, arg) == arg \in DOMAIN store

PluginStore_get(store, name) == store[name]

\* self.plugins[name] = arg
PluginStore_put(store, name, arg) ==
    [n \in DOMAIN store \cup {name} |-> IF n = name THEN arg ELSE store[n]]

\* bool(name), for name None or a str
truthy(name) == name # NoneVal /\ name # StrVal(<<>>)

\* hasattr(arg, '__name__')
has_name(arg) == arg.type = "function"

AttributeError == "AttributeError"

\* the exception add(arg, name) raises, "" when it returns
PluginStore_add_exc(arg, name) ==
    IF ~truthy(name) /\ ~has_name(arg) THEN AttributeError ELSE ""

\* add(arg, name): name = name or arg.__name__; self.plugins[name] = arg.
\* name is None or a str; when arg.__name__ raises the dict is as it was
PluginStore_add(store, arg, name) ==
    IF PluginStore_add_exc(arg, name) # "" THEN store
    ELSE PluginStore_put(store, IF truthy(name) THEN name.s ELSE arg.name, arg)

\* register(fn, name=name) and register(name=name)(fn): wrapper(fn)
PluginStore_register(store, fn, name) == PluginStore_add(store, fn, name)

PluginStore_clear(store) == <<>>

-----------------------------------------------------------------------------
(* The host's plugins: the callables the tests register *)

N_len == <<"l", "e", "n">>
N_count == <<"c", "o", "u", "n", "t">>
N_fn2 == <<"f", "n", "2">>
N_put == <<"p", "u", "t">>
N_tamper == <<"t", "a", "m", "p", "e", "r">>
N_again == <<"a", "g", "a", "i", "n">>

\* callable(plugin)
callable(value) == value.type = "function"

\* inspect.getfullargspec(plugin).kwonlyargs: count, fn2 and put are declared
\* with (*, env), tamper with (op, *, env), len with (obj), again with ()
kwonlyargs(plugin) ==
    IF plugin.name \in {N_count, N_fn2, N_put, N_tamper} THEN {K_kwenv} ELSE {}

\* inspect.getfullargspec(plugin).args: the positional parameters
positional(plugin) == IF plugin.name \in {N_len, N_tamper} THEN 1 ELSE 0

-----------------------------------------------------------------------------
(* SafeCodeValidator: "" when the node is accepted, else the exception *)

IllegalSyntax == "ParserException: Illegal syntax"
IllegalPlugin == "ParserException: Illegal assignment into plugin"
IllegalDunder == "ParserException: Illegal assignment into double-underscore variable"
IllegalExisting == "ParserException: Illegal assignment into existing variable"
UnknownPlugin == "ParserException: Unknown plugin"
NameError == "ParserException: NameError"
SyntaxError == "ParserException: SyntaxError"
TypeError == "TypeError"

RECURSIVE visit(_, _)
RECURSIVE visit_each(_, _)
RECURSIVE validator_visit_Call(_, _)

\* a variant that leaves the loop after its first node
visit_first_only(nodes, store) ==
    IF nodes = <<>> THEN "" ELSE visit(Head(nodes), store)

\* for x in nodes: self.visit(x), stopping at the first exception
visit_each(nodes, store) ==
    IF nodes = <<>> THEN ""
    ELSE LET e == visit(Head(nodes), store)
         IN  IF e # "" THEN e ELSE visit_each(Tail(nodes), store)

\* a variant of visit_Call that does not visit the keyword arguments
validator_visit_Call_args_only(node, store) ==
    IF node.func.node # "Name" THEN IllegalSyntax
    ELSE visit_each(node.args, store)

validator_visit_Call(node, store) ==
    IF node.func.node # "Name" THEN IllegalSyntax
    ELSE LET e == visit_each(node.args, store)
         IN  IF e # "" THEN e
             ELSE visit_each([i \in DOMAIN node.keywords |-> node.keywords[i].value], store)

visit_Expr(node, store) ==
    IF node.value.node # "Call" THEN IllegalSyntax
    ELSE validator_visit_Call(node.value, store)

\* a variant of visit_Assign without the test for a plugin's name
visit_Assign_plugin_unchecked(node, store) ==
    IF Len(node.targets) > 1 THEN IllegalSyntax
    ELSE IF node.targets[1].node # "Name" THEN IllegalSyntax
    ELSE IF startswith(node.targets[1].id, <<U, U>>) /\ endswith(node.targets[1].id, <<U, U>>)
         THEN IllegalDunder
    ELSE visit(node.value, store)

visit_Assign(node, store) ==
    IF Len(node.targets) > 1 THEN IllegalSyntax
    ELSE IF node.targets[1].node # "Name" THEN IllegalSyntax
    ELSE IF PluginStore_has(store, node.targets[1].id) THEN IllegalPlugin
    ELSE IF startswith(node.targets[1].id, <<U, U>>) /\ endswith(node.targets[1].id, <<U, U>>)
         THEN IllegalDunder
    ELSE visit(node.value, store)

visit_Dict(node, store) ==
    LET e == visit_each(node.keys, store)
    IN  IF e # "" THEN e ELSE visit_each(node.values, store)

\* NodeVisitor.visit: dispatch on the node's class, generic_visit raises
visit(node, store) ==
    CASE node.node = "Module" -> visit_each(node.body, store)
      [] node.node = "Expr" -> visit_Expr(node, store)
      [] node.node = "Call" -> validator_visit_Call(node, store)
      [] node.node = "Assign" -> visit_Assign(node, store)
      [] node.node \in {"List", "Set"} -> visit_each(node.elts, store)
      [] node.node = "Dict" -> visit_Dict(node, store)
      [] node.node \in {"Num", "NameConstant", "Str", "Name"} -> ""
      [] OTHER -> IllegalSyntax

-----------------------------------------------------------------------------
(* EnvironmentInjector: the tree after the visit *)

injector_visit_Call(node, store) ==
    IF ~PluginStore_has(store, node.func.id) THEN node
    ELSE IF ~callable(PluginStore_get(store, node.func.id)) THEN node
    ELSE IF K_kwenv \in kwonlyargs(PluginStore_get(store, node.func.id))
         THEN [node EXCEPT !.keywords = Append(@, keyword(K_kwenv, Name(K_env)))]
         ELSE node

\* NodeVisitor.visit with the inherited generic_visit: visit_Call for a Call
\* (which visits no child), and for any other node the visit of its children
RECURSIVE inject(_, _)
inject(node, store) ==
    CASE node.node = "Call" -> injector_visit_Call(node, store)
      [] node.node \in {"List", "Set"} ->
            [node EXCEPT !.elts = [i \in DOMAIN @ |-> inject(@[i], store)]]
      [] node.node = "Dict" ->
            [node EXCEPT !.keys = [i \in DOMAIN @ |-> inject(@[i], store)],
                         !.values = [i \in DOMAIN @ |-> inject(@[i], store)]]
      [] OTHER -> node

-----------------------------------------------------------------------------
(* Evaluation: eval(compile(...), globals), and the plugins it calls.        *)
(* The interpreter is the one the tests pass on (Python 3.7 / 3.8), where    *)
(* compile accepts the keyword node the injector builds and a keyword given  *)
(* twice is the call's TypeError.                                            *)

\* what evaluating did: the environment and the invocation log after it, the
\* value, and the exception raised ("" when a value was produced)
Result(e, c, val, exc) == [env |-> e, calls |-> c, val |-> val, exc |-> exc]

\* a variant of Globals where the environment's bindings come last
Globals_env_last(e, store) ==
    [n \in Keys(e) \cup DOMAIN store |->
        IF n \in Keys(e) THEN DictGet(e, n) ELSE store[n]]

\* globals = {}; globals.update(self.env); globals.update(plugins)
Globals(e, store) ==
    [n \in Keys(e) \cup DOMAIN store |->
        IF n \in DOMAIN store THEN store[n] ELSE DictGet(e, n)]

\* the names Python's builtins module would resolve, were it reachable
Builtins == {N_len}

\* a global name: eval falls back on the real builtins only when globals
\* has no '__builtins__' entry
load_name(id, globals) ==
    IF id \in DOMAIN globals THEN [val |-> globals[id], exc |-> ""]
    ELSE IF K_builtins \notin DOMAIN globals /\ id \in Builtins
         THEN [val |-> Function(id), exc |-> ""]
         ELSE [val |-> NoneVal, exc |-> NameError]

KwNames(kwargs) == {kwargs[i].arg : i \in DOMAIN kwargs}

KwValue(kwargs, arg) == kwargs[CHOOSE i \in DOMAIN kwargs : kwargs[i].arg = arg].value

\* one entry of the invocation log: the name the call was written with, the
\* function called, its arguments and what the view showed at that moment
Invocation(via, fn, args, kwargs, e) ==
    [via |-> via, fn |-> fn.name, args |-> args, kwargs |-> kwargs,
     items |-> SafeEnv_items(e)]

\* whether the arguments fit the signature: len(obj), count(*, env),
\* fn2(*, env), tamper(op, *, env), again(); if not (a keyword given twice
\* included), the call raises TypeError and no body runs
binds(fn, args, kwargs) ==
    /\ Len(args) = positional(fn)
    /\ KwNames(kwargs) = kwonlyargs(fn)
    /\ Cardinality(KwNames(kwargs)) = Len(kwargs)

\* len(obj), the builtin the tests register
plugin_len(args, kwargs, e, c) ==
    IF args[1].type = "list"
    THEN Result(e, c, IntVal(Len(args[1].elts)), "")
    ELSE IF args[1].type = "dict"
    THEN Result(e, c, IntVal(Len(args[1].items)), "")
    ELSE IF args[1].type = "SafeEnv"
    THEN Result(e, c, IntVal(SafeEnv_len(e)), "")
    ELSE Result(e, c, NoneVal, TypeError)

\* def count(*, env): return len(env)
plugin_count(args, kwargs, e, c) ==
    LET given == KwValue(kwargs, K_kwenv)
    IN  IF given.type = "SafeEnv" THEN Result(e, c, IntVal(SafeEnv_len(e)), "")
        ELSE IF given.type = "list" THEN Result(e, c, IntVal(Len(given.elts)), "")
        ELSE Result(e, c, NoneVal, TypeError)

\* def fn2(*, env): env['__a__'] = 0
plugin_fn2(args, kwargs, e, c) ==
    LET given == KwValue(kwargs, K_kwenv)
        did == SafeEnv_setitem(e, K_dunder_a, IntVal(0))
    IN  IF given.type = "SafeEnv" THEN Result(did.inner, c, did.ret, did.exc)
        ELSE Result(e, c, NoneVal, TypeError)

\* def put(*, env): env['a'] = 1
plugin_put(args, kwargs, e, c) ==
    LET given == KwValue(kwargs, K_kwenv)
        did == SafeEnv_setitem(e, K_a, IntVal(1))
    IN  IF given.type = "SafeEnv" THEN Result(did.inner, c, did.ret, did.exc)
        ELSE Result(e, c, NoneVal, TypeError)

\* a plugin that tries to remove or rebind the sentinels through its env:
\* def tamper(op, *, env):
\*     if op == 0: env['__env__'] = 0
\*     elif op == 1: del env['__env__']
\*     elif op == 2: env.pop('__builtins__')
\*     elif op == 3: env.setdefault('__builtins__', 0)
\*     else:
\*         env.update({'__env__': 0}, __builtins__=0)
\*         env.pop('__env__', None)
\*         if len(env): env.popitem()
\*         env.clear()
plugin_tamper(args, kwargs, e, c) ==
    LET given == KwValue(kwargs, K_kwenv)
        op == args[1]
        rest == LET e1 == SafeEnv_update(e, <<[key |-> K_env, val |-> IntVal(0)]>>,
                                         <<[key |-> K_builtins, val |-> IntVal(0)]>>).inner
                    e2 == SafeEnv_pop(e1, K_env, TRUE, NoneVal).inner
                    e3 == IF SafeEnv_len(e2) > 0 THEN SafeEnv_popitem(e2).inner ELSE e2
                IN  SafeEnv_clear(e3)
        did == CASE op = IntVal(0) -> SafeEnv_setitem(e, K_env, IntVal(0))
                 [] op = IntVal(1) -> SafeEnv_delitem(e, K_env)
                 [] op = IntVal(2) -> SafeEnv_pop(e, K_builtins, FALSE, NoneVal)
                 [] op = IntVal(3) -> SafeEnv_setdefault(e, K_builtins, IntVal(0))
                 [] OTHER -> rest
    IN  IF given.type = "SafeEnv" THEN Result(did.inner, c, NoneVal, did.exc)
        ELSE Result(e, c, NoneVal, TypeError)

\* self.env['__builtins__'] = {}; self.env['__env__'] = SafeEnv(self.env)
prepare_environment(e) == DictSet(DictSet(e, K_builtins, NoBuiltins), K_env, EnvHandle)

\* del self.env['__builtins__']; del self.env['__env__']
strip_environment(e) ==
    IF K_builtins \notin Keys(e) THEN Did(e, NoneVal, KeyError)
    ELSE IF K_env \notin Keys(DictDel(e, K_builtins))
    THEN Did(DictDel(e, K_builtins), NoneVal, KeyError)
    ELSE Did(DictDel(DictDel(e, K_builtins), K_env), NoneVal, "")

\* the submission the plugin again hands to the parser: b = 0
NestedContent == Module(<<Assign(<<Name(K_b)>>, Num(0))>>)

\* a plugin that holds the parser and calls it:
\* def again(): parser.parse('b = 0')
\* Parser.parse runs as one call on the parser's registry and on the
\* environment the running submission works on: the validator,
\* prepare_environment, execute_assign of the one statement (its right-hand
\* side is a number, which evaluates to itself and calls nothing) and the
\* finally block, whose exception replaces the one of execute
plugin_again(args, kwargs, e, c) ==
    LET stmt == NestedContent.body[1]
        identifier == stmt.targets[1].id
        p == prepare_environment(e)
        r == IF identifier \in Keys(p) THEN Result(p, c, NoneVal, IllegalExisting)
             ELSE Result(DictSet(p, identifier, IntVal(stmt.value.n)), c, NoneVal, "")
        s == strip_environment(r.env)
    IN  IF visit(NestedContent, plugins) # ""
        THEN Result(e, c, NoneVal, visit(NestedContent, plugins))
        ELSE Result(s.inner, r.calls, NoneVal, IF s.exc # "" THEN s.exc ELSE r.exc)

\* the call fn(*args, **kwargs) of a value found in globals
invoke(via, fn, args, kwargs, e, c) ==
    IF ~callable(fn) THEN Result(e, c, NoneVal, TypeError)
    ELSE IF ~binds(fn, args, kwargs) THEN Result(e, c, NoneVal, TypeError)
    ELSE LET c2 == Append(c, Invocation(via, fn, args, kwargs, e))
         IN  CASE fn.name = N_len -> plugin_len(args, kwargs, e, c2)
               [] fn.name = N_count -> plugin_count(args, kwargs, e, c2)
               [] fn.name = N_fn2 -> plugin_fn2(args, kwargs, e, c2)
               [] fn.name = N_put -> plugin_put(args, kwargs, e, c2)
               [] fn.name = N_tamper -> plugin_tamper(args, kwargs, e, c2)
               [] fn.name = N_again -> plugin_again(args, kwargs, e, c2)
               [] OTHER -> Result(e, c2, NoneVal, TypeError)

RECURSIVE eval(_, _, _, _)
RECURSIVE eval_each(_, _, _, _)

\* the values of nodes, left to right, stopping at the first exception
eval_each(nodes, globals, e, c) ==
    IF nodes = <<>> THEN Result(e, c, <<>>, "")
    ELSE LET r == eval(Head(nodes), globals, e, c)
         IN  IF r.exc # "" THEN r
             ELSE LET rs == eval_each(Tail(nodes), globals, r.env, r.calls)
                  IN  IF rs.exc # "" THEN rs
                      ELSE Result(rs.env, rs.calls, <<r.val>> \o rs.val, "")

eval_Call(node, globals, e, c) ==
    LET f == IF node.func.node = "Name" THEN load_name(node.func.id, globals)
                                        ELSE [val |-> NoneVal, exc |-> TypeError]
    IN  IF f.exc # "" THEN Result(e, c, NoneVal, f.exc)
        ELSE LET a == eval_each(node.args, globals, e, c)
             IN  IF a.exc # "" THEN a
                 ELSE LET k == eval_each([i \in DOMAIN node.keywords |-> node.keywords[i].value],
                                         globals, a.env, a.calls)
                      IN  IF k.exc # "" THEN k
                          ELSE invoke(node.func.id, f.val, a.val,
                                      [i \in DOMAIN node.keywords |->
                                          keyword(node.keywords[i].arg, k.val[i])],
                                      k.env, k.calls)

eval(node, globals, e, c) ==
    CASE node.node = "Num" -> Result(e, c, IntVal(node.n), "")
      [] node.node = "NameConstant" -> Result(e, c, NoneVal, "")
      [] node.node = "Name" ->
            Result(e, c, load_name(node.id, globals).val, load_name(node.id, globals).exc)
      [] node.node = "List" ->
            LET r == eval_each(node.elts, globals, e, c)
            IN  IF r.exc # "" THEN r ELSE Result(r.env, r.calls, ListVal(r.val), "")
      [] node.node = "Call" -> eval_Call(node, globals, e, c)
      [] OTHER -> Result(e, c, NoneVal, TypeError)

-----------------------------------------------------------------------------
(* Parser *)

\* compile_expr: the injector's visit, then compile
compile_expr(expr, store) == inject(expr, store)

evaluate_expr(expr, e, c, store) ==
    IF expr.node = "Call" /\ ~PluginStore_has(store, expr.func.id)
    THEN Result(e, c, NoneVal, UnknownPlugin)
    ELSE eval(compile_expr(expr, store), Globals(e, store), e, c)

\* a variant of execute_assign without the test for an existing variable
execute_assign_overwrite(stmt, e, c, store) ==
    LET r == evaluate_expr(stmt.value, e, c, store)
    IN  IF r.exc # "" THEN r
        ELSE Result(DictSet(r.env, stmt.targets[1].id, r.val), r.calls, NoneVal, "")

execute_assign(stmt, e, c, store) ==
    LET identifier == stmt.targets[1].id
        r == evaluate_expr(stmt.value, e, c, store)
    IN  IF identifier \in Keys(e) THEN Result(e, c, NoneVal, IllegalExisting)
        ELSE IF r.exc # "" THEN r
        ELSE Result(DictSet(r.env, identifier, r.val), r.calls, NoneVal, "")

execute_expr(stmt, e, c, store) == evaluate_expr(stmt.value, e, c, store)

\* one turn of the loop of Parser.execute
execute_stmt(stmt, e, c, store) ==
    CASE stmt.node = "Assign" -> execute_assign(stmt, e, c, store)
      [] stmt.node = "Expr" -> execute_expr(stmt, e, c, store)
      [] OTHER -> Result(e, c, NoneVal, IllegalSyntax)

-----------------------------------------------------------------------------
(* The submissions and the host's registrations the model draws from *)

HostPlugins == {Function(N_len), Function(N_count), Function(N_fn2)}

EmptyList == List(<<>>)

Stmts ==
    { Assign(<<Name(K_a)>>, Num(0)),                                  \* a = 0
      Assign(<<Name(K_b)>>, Name(K_a)),                               \* b = a
      Assign(<<Name(K_a)>>, Name(N_len)),                             \* a = len
      Assign(<<Name(K_b)>>, Call(Name(K_a), <<EmptyList>>, <<>>)),    \* b = a([])
      Assign(<<Name(K_b)>>,
             List(<<Call(Name(K_a), <<EmptyList>>, <<>>)>>)),         \* b = [a([])]
      Assign(<<Name(K_b)>>, Call(Name(N_count), <<>>, <<>>)),         \* b = count()
      Assign(<<Name(K_b)>>,
             Call(Name(N_len),
                  <<List(<<Call(Name(N_count), <<>>,
                                <<keyword(K_kwenv, EmptyList)>>)>>)>>,
                  <<>>)),                                  \* b = len([count(env=[])])
      Expr(Call(Name(N_fn2), <<>>, <<>>)),                            \* fn2()
      Assign(<<Name(K_a)>>, Other("BinOp")) }                         \* a = 1 + 1

\* two submissions of three statements: a disallowed statement in the middle,
\* and a statement that fails between one that binds and one that would
LongSubmissions ==
    { <<Assign(<<Name(K_a)>>, Num(0)),
        Assign(<<Name(K_a)>>, Other("BinOp")),
        Assign(<<Name(K_b)>>, Name(K_a))>>,
      <<Assign(<<Name(K_a)>>, Name(N_len)),
        Assign(<<Name(K_b)>>, Call(Name(K_a), <<EmptyList>>, <<>>)),
        Assign(<<Name(K_b)>>, Name(K_a))>> }

Submissions == UNION {[1..n -> Stmts] : n \in 1..MaxStmts} \cup LongSubmissions

\* text that ast.parse refuses
NotPython == [node |-> "SyntaxError"]

Contents == {Module(stmts) : stmts \in Submissions} \cup {NotPython}

-----------------------------------------------------------------------------
(* The state machine of Parser.parse *)

Returned(value) == [kind |-> "returned", value |-> value]
Raised(exc) == [kind |-> "raised", exc |-> exc]
NoOutcome == [kind |-> "none"]

NoOp == [op |-> "none"]

Init ==
    /\ env = <<>>
    /\ plugins = <<>>
    /\ pc = "idle"
    /\ content = NotPython
    /\ body = <<>>
    /\ ip = 1
    /\ pending = ""
    /\ outcome = NoOutcome
    /\ envBefore = <<>>
    /\ calls = <<>>
    /\ done = <<>>
    /\ last = NoOp

\* the host registers a plugin under its own name
PluginStoreAdd(p) ==
    /\ pc = "idle"
    /\ plugins' = PluginStore_add(plugins, p, NoneVal)
    /\ plugins' # plugins
    /\ UNCHANGED <<env, pc, content, body, ip, pending, outcome, envBefore, calls, done, last>>

\* Parser.parse up to the try block: ast.parse, the validator, then
\* prepare_environment
Parse(c) ==
    /\ pc = "idle"
    /\ content' = c
    /\ envBefore' = env
    /\ IF c = NotPython
       THEN /\ outcome' = Raised(SyntaxError)
            /\ pc' = "returned"
            /\ UNCHANGED <<env, body>>
       ELSE IF visit(c, plugins) # ""
       THEN /\ outcome' = Raised(visit(c, plugins))
            /\ pc' = "returned"
            /\ UNCHANGED <<env, body>>
       ELSE /\ env' = prepare_environment(env)
            /\ body' = c.body
            /\ pc' = IF c.body = <<>> THEN "cleanup" ELSE "executing"
            /\ outcome' = NoOutcome
    /\ UNCHANGED <<plugins, ip, pending, calls, done, last>>

\* a variant of Execute without the finally block: an exception leaves
\* Parser.parse at once
Execute_no_finally ==
    /\ pc = "executing"
    /\ LET r == execute_stmt(body[ip], env, calls, plugins)
       IN  /\ env' = r.env
           /\ calls' = r.calls
           /\ done' = Append(done, [pre |-> env, exc |-> r.exc])
           /\ pending' = ""
           /\ ip' = IF r.exc = "" THEN ip + 1 ELSE ip
           /\ pc' = IF r.exc # "" THEN "returned"
                     ELSE IF ip = Len(body) THEN "cleanup" ELSE "executing"
           /\ outcome' = IF r.exc # "" THEN Raised(r.exc) ELSE outcome
    /\ UNCHANGED <<plugins, content, body, envBefore, last>>

\* a variant of Execute that undoes the submission's bindings when a
\* statement fails
Execute_rollback ==
    /\ pc = "executing"
    /\ LET r == execute_stmt(body[ip], env, calls, plugins)
       IN  /\ env' = IF r.exc = "" THEN r.env ELSE prepare_environment(envBefore)
           /\ calls' = r.calls
           /\ done' = Append(done, [pre |-> env, exc |-> r.exc])
           /\ pending' = r.exc
           /\ ip' = IF r.exc = "" THEN ip + 1 ELSE ip
           /\ pc' = IF r.exc # "" \/ ip = Len(body) THEN "cleanup" ELSE "executing"
    /\ UNCHANGED <<plugins, content, body, outcome, envBefore, last>>

\* Parser.execute: the next statement of the submission
Execute ==
    /\ pc = "executing"
    /\ LET r == execute_stmt(body[ip], env, calls, plugins)
       IN  /\ env' = r.env
           /\ calls' = r.calls
           /\ done' = Append(done, [pre |-> env, exc |-> r.exc])
           /\ pending' = r.exc
           /\ ip' = IF r.exc = "" THEN ip + 1 ELSE ip
           /\ pc' = IF r.exc # "" \/ ip = Len(body) THEN "cleanup" ELSE "executing"
    /\ UNCHANGED <<plugins, content, body, outcome, envBefore, last>>

\* the finally block of Parser.parse: strip_environment, then the return or
\* the exception
Strip ==
    /\ pc = "cleanup"
    /\ LET s == strip_environment(env)
       IN  /\ env' = s.inner
           /\ outcome' = IF s.exc # "" THEN Raised(s.exc)
                         ELSE IF pending # "" THEN Raised(pending)
                         ELSE Returned(NoneVal)
    /\ pc' = "returned"
    /\ body' = <<>>
    /\ ip' = 1
    /\ pending' = ""
    /\ UNCHANGED <<plugins, content, envBefore, calls, done, last>>

\* the caller has the result of Parser.parse and goes on; the history of the
\* call is forgotten
Resume ==
    /\ pc = "returned"
    /\ pc' = "idle"
    /\ content' = NotPython
    /\ outcome' = NoOutcome
    /\ envBefore' = <<>>
    /\ calls' = <<>>
    /\ done' = <<>>
    /\ UNCHANGED <<env, plugins, body, ip, pending, last>>

Next ==
    \/ \E p \in HostPlugins : PluginStoreAdd(p)
    \/ \E c \in Contents : Parse(c)
    \/ Execute
    \/ Strip
    \/ Resume

Spec == Init /\ [][Next]_vars

-----------------------------------------------------------------------------
(* Parser on submissions made of assignments to every kind of target *)

TargetPlugins == {Function(N_len)}

TargetStmts ==
    { Assign(<<Name(K_a)>>, Num(0)),                                  \* a = 0
      Assign(<<Name(N_len)>>, Num(0)),                                \* len = 0
      Assign(<<Name(K_hid)>>, Num(0)),                                \* __h__ = 0
      Assign(<<Name(K_ua)>>, Num(0)),                                 \* __a = 0
      Assign(<<Name(K_au)>>, Num(0)) }                                \* a__ = 0

TargetContents ==
    {Module(stmts) : stmts \in UNION {[1..n -> TargetStmts] : n \in 1..MaxStmts}}

NextTargets ==
    \/ \E p \in TargetPlugins : PluginStoreAdd(p)
    \/ \E c \in TargetContents : Parse(c)
    \/ Execute
    \/ Strip
    \/ Resume

SpecTargets == Init /\ [][NextTargets]_vars

-----------------------------------------------------------------------------
(* Parser on submissions that read names and call a plugin that writes one *)

NamePlugins == {Function(N_len), Function(N_put)}

NameStmts ==
    { Assign(<<Name(K_a)>>, Num(0)),                                  \* a = 0
      Assign(<<Name(K_b)>>, Name(K_a)),                               \* b = a
      Assign(<<Name(K_a)>>, Name(N_len)),                             \* a = len
      Assign(<<Name(K_b)>>, List(<<Name(N_len)>>)),                   \* b = [len]
      Assign(<<Name(N_len)>>, Num(0)),                                \* len = 0
      Assign(<<Name(K_a)>>, Call(Name(N_put), <<>>, <<>>)),           \* a = put()
      Assign(<<Name(K_b)>>, Call(Name(N_put), <<>>, <<>>)) }          \* b = put()

NameContents ==
    {Module(stmts) : stmts \in UNION {[1..n -> NameStmts] : n \in 1..MaxStmts}}

NextNames ==
    \/ \E p \in NamePlugins : PluginStoreAdd(p)
    \/ \E c \in NameContents : Parse(c)
    \/ Execute
    \/ Strip
    \/ Resume

SpecNames == Init /\ [][NextNames]_vars

-----------------------------------------------------------------------------
(* Parser on submissions that read the names of the sentinels *)

SentinelPlugins == {Function(N_len)}

SentinelStmts ==
    { Assign(<<Name(K_a)>>, Num(0)),                                  \* a = 0
      Assign(<<Name(K_b)>>, Name(K_a)),                               \* b = a
      Assign(<<Name(K_a)>>, Name(K_env)),                             \* a = __env__
      Assign(<<Name(K_a)>>, Name(K_builtins)),                        \* a = __builtins__
      Assign(<<Name(K_b)>>, List(<<Name(K_env)>>)),                   \* b = [__env__]
      Assign(<<Name(K_b)>>,
             Call(Name(N_len), <<Name(K_builtins)>>, <<>>)),          \* b = len(__builtins__)
      Expr(Call(Name(N_len), <<Name(K_env)>>, <<>>)) }                \* len(__env__)

SentinelContents ==
    {Module(stmts) : stmts \in UNION {[1..n -> SentinelStmts] : n \in 1..MaxStmts}}

NextSentinels ==
    \/ \E p \in SentinelPlugins : PluginStoreAdd(p)
    \/ \E c \in SentinelContents : Parse(c)
    \/ Execute
    \/ Strip
    \/ Resume

SpecSentinels == Init /\ [][NextSentinels]_vars

-----------------------------------------------------------------------------
(* Parser with plugins that work on the sentinels through the view, and a    *)
(* plugin that calls the parser                                              *)

ReentryPlugins == {Function(N_tamper), Function(N_again)}

ReentryStmts ==
    {Expr(Call(Name(N_tamper), <<Num(op)>>, <<>>)) : op \in 0..4}     \* tamper(op)
        \cup { Expr(Call(Name(N_again), <<>>, <<>>)),                 \* again()
               Assign(<<Name(K_a)>>, Num(0)),                         \* a = 0
               Assign(<<Name(K_a)>>, Name(N_len)) }                   \* a = len

ReentryContents ==
    {Module(stmts) : stmts \in UNION {[1..n -> ReentryStmts] : n \in 1..MaxStmts}}

NextReentry ==
    \/ \E p \in ReentryPlugins : PluginStoreAdd(p)
    \/ \E c \in ReentryContents : Parse(c)
    \/ Execute
    \/ Strip
    \/ Resume

SpecReentry == Init /\ [][NextReentry]_vars

-----------------------------------------------------------------------------
(* SafeEnv on its own: any backing dict, any operation, any key *)

ViewKeys == {K_a, K_b, K_hid, K_env}

ViewVals == {IntVal(0), IntVal(1)}

ViewItems == {[key |-> k, val |-> v] : k \in ViewKeys, v \in ViewVals}

\* the dicts of at most MaxEntries entries
ViewDicts ==
    UNION {{d \in [1..n -> ViewItems] :
                \A i, j \in 1..n : d[i].key = d[j].key => i = j} : n \in 0..MaxEntries}

\* the pairs of a positional source carry 1, those of keyword arguments 0
UpdateItems == {[key |-> k, val |-> IntVal(1)] : k \in ViewKeys}

UpdateKwItems == {[key |-> k, val |-> IntVal(0)] : k \in ViewKeys}

\* update(mapping): a sequence of at most MaxPairs pairs, keys may repeat
UpdateSources ==
    {[mapping |-> m, kwargs |-> <<>>] : m \in UNION {[1..n -> UpdateItems] : n \in 0..MaxPairs}}

\* update(mapping, **kwargs): a positional source and keyword arguments (no
\* key twice), of at most MaxPairs pairs together
UpdateCalls ==
    UNION {UNION {{[mapping |-> m, kwargs |-> k] :
                        m \in [1..n -> UpdateItems],
                        k \in {kw \in [1..j -> UpdateKwItems] :
                                    \A x, y \in 1..j : kw[x].key = kw[y].key => x = y}} :
                    j \in 0..(MaxPairs - n)} : n \in 0..MaxPairs}

InitEnv ==
    /\ env \in ViewDicts
    /\ plugins = <<>>
    /\ pc = "idle"
    /\ content = NotPython
    /\ body = <<>>
    /\ ip = 1
    /\ pending = ""
    /\ outcome = NoOutcome
    /\ envBefore = <<>>
    /\ calls = <<>>
    /\ done = <<>>
    /\ last = NoOp

\* the operation op, given key (and val), did `did` to the backing dict
Applied(op, key, val, did) ==
    /\ env' = did.inner
    /\ last' = [op |-> op, key |-> key, val |-> val, pre |-> env,
                ret |-> did.ret, exc |-> did.exc]
    /\ UNCHANGED <<plugins, pc, content, body, ip, pending, outcome, envBefore, calls, done>>

Getitem(key) == Applied("getitem", key, NoneVal, SafeEnv_getitem(env, key))

Setitem(key, val) == Applied("setitem", key, val, SafeEnv_setitem(env, key, val))

Delitem(key) == Applied("delitem", key, NoneVal, SafeEnv_delitem(env, key))

Setdefault(key, val) == Applied("setdefault", key, val, SafeEnv_setdefault(env, key, val))

Pop(key) == Applied("pop", key, NoneVal, SafeEnv_pop(env, key, FALSE, NoneVal))

PopDefault(key, val) == Applied("pop_default", key, val, SafeEnv_pop(env, key, TRUE, val))

Popitem == Applied("popitem", <<>>, NoneVal, SafeEnv_popitem(env))

Clear == Applied("clear", <<>>, NoneVal, SafeEnv_clear(env))

Update(source) ==
    Applied("update", <<>>, source, SafeEnv_update(env, source.mapping, source.kwargs))

NextEnv ==
    \/ \E k \in ViewKeys : Getitem(k)
    \/ \E k \in ViewKeys, v \in ViewVals : Setitem(k, v)
    \/ \E k \in ViewKeys : Delitem(k)
    \/ \E k \in ViewKeys, v \in ViewVals : Setdefault(k, v)
    \/ \E k \in ViewKeys : Pop(k)
    \/ \E k \in ViewKeys, v \in ViewVals : PopDefault(k, v)
    \/ Popitem
    \/ Clear
    \/ \E source \in UpdateSources : Update(source)

SpecEnv == InitEnv /\ [][NextEnv]_vars

\* the bulk operations on their own: one update (with keyword arguments) or
\* one clear, on any backing dict
NextBulk ==
    /\ last = NoOp
    /\ \/ \E source \in UpdateCalls : Update(source)
       \/ Clear

SpecBulk == InitEnv /\ [][NextBulk]_vars

-----------------------------------------------------------------------------
(* SafeCodeValidator on its own: any tree of bounded depth *)

\* the deepest nesting of expressions in the trees the validator is given
MaxDepth == 2

Leaves == {Name(K_a), Num(0), Other("BinOp")}

\* a bare-name callee and an attribute callee
Callees == {Name(N_len), Other("Attribute")}

RECURSIVE TreeExprs(_)
TreeExprs(d) ==
    IF d = 0 THEN Leaves
    ELSE LET S == TreeExprs(d - 1)
         IN  S \cup {List(<<>>)}
               \cup {List(<<x>>) : x \in S}
               \cup {Set(<<x>>) : x \in S}
               \cup {Dict(<<x>>, <<Num(0)>>) : x \in S}
               \cup {Dict(<<Num(0)>>, <<x>>) : x \in S}
               \cup {Call(f, <<>>, <<>>) : f \in Callees}
               \cup {Call(f, <<x>>, <<>>) : f \in Callees, x \in S}
               \cup {Call(f, <<>>, <<keyword(K_a, x)>>) : f \in Callees, x \in S}

\* a plain name, a plugin's name, a hidden name, two targets, a tuple target
TreeTargets ==
    { <<Name(K_a)>>, <<Name(N_len)>>, <<Name(K_hid)>>,
      <<Name(K_a), Name(K_b)>>, <<Other("Tuple")>> }

TreeStmts ==
    {Assign(t, x) : t \in TreeTargets, x \in TreeExprs(MaxDepth)}
        \cup {Expr(x) : x \in TreeExprs(MaxDepth)}
        \cup {Other("If")}

\* one statement, or one statement before or after a = 0 or an if
TreeBodies ==
    {<<s>> : s \in TreeStmts}
        \cup {<<s, t>> : s \in TreeStmts, t \in {Assign(<<Name(K_a)>>, Num(0)), Other("If")}}
        \cup {<<t, s>> : s \in TreeStmts, t \in {Assign(<<Name(K_a)>>, Num(0)), Other("If")}}

TreeStores == {<<>>, PluginStore_add(<<>>, Function(N_len), NoneVal)}

InitValidator ==
    /\ content \in {Module(b) : b \in TreeBodies}
    /\ plugins \in TreeStores
    /\ env = <<>>
    /\ pc = "idle"
    /\ body = <<>>
    /\ ip = 1
    /\ pending = ""
    /\ outcome = NoOutcome
    /\ envBefore = <<>>
    /\ calls = <<>>
    /\ done = <<>>
    /\ last = NoOp

\* SafeCodeValidator(self.plugin_store).visit(root)
Validate ==
    /\ pc = "idle"
    /\ outcome' = IF visit(content, plugins) = "" THEN Returned(NoneVal)
                  ELSE Raised(visit(content, plugins))
    /\ pc' = "returned"
    /\ UNCHANGED <<env, plugins, content, body, ip, pending, envBefore, calls, done, last>>

NextValidator == Validate

SpecValidator == InitValidator /\ [][NextValidator]_vars

-----------------------------------------------------------------------------
(* The test for a hidden name, in the view and in the validator: every name  *)
(* of bounded length, as a key set through the view and as an Assign target  *)

\* the longest name
MaxNameLen == 5

Idents == UNION {[1..n -> {U, "a"}] : n \in 1..MaxNameLen}

InitHidden ==
    /\ content \in {Module(<<Assign(<<Name(id)>>, Num(0))>>) : id \in Idents}
    /\ plugins = <<>>
    /\ env = <<>>
    /\ pc = "idle"
    /\ body = <<>>
    /\ ip = 1
    /\ pending = ""
    /\ outcome = NoOutcome
    /\ envBefore = <<>>
    /\ calls = <<>>
    /\ done = <<>>
    /\ last = NoOp

\* SafeEnv(env)[id] = 0, for the name id of the tree
SetitemIdent ==
    /\ last = NoOp
    /\ Setitem(content.body[1].targets[1].id, IntVal(0))

NextHidden ==
    \/ SetitemIdent
    \/ Validate

SpecHidden == InitHidden /\ [][NextHidden]_vars

-----------------------------------------------------------------------------
(* EnvironmentInjector on its own: any tree of bounded depth, visited again  *)
(* and again                                                                 *)

\* the largest number of visits of one tree
MaxVisits == 2

\* calls of len and of count (declared with (*, env)) in every position
RECURSIVE InjectExprs(_)
InjectExprs(d) ==
    IF d = 0
    THEN {Name(K_a), Call(Name(N_len), <<>>, <<>>), Call(Name(N_count), <<>>, <<>>)}
    ELSE LET S == InjectExprs(d - 1)
             F == {Name(N_len), Name(N_count)}
         IN  S \cup {List(<<x>>) : x \in S}
               \cup {Set(<<x>>) : x \in S}
               \cup {Dict(<<x>>, <<Num(0)>>) : x \in S}
               \cup {Dict(<<Num(0)>>, <<x>>) : x \in S}
               \cup {Call(f, <<x>>, <<>>) : f \in F, x \in S}
               \cup {Call(f, <<>>, <<keyword(K_a, x)>>) : f \in F, x \in S}

\* no plugin; len and count; len, and count registered as a number
InjectStores ==
    { <<>>,
      PluginStore_add(PluginStore_add(<<>>, Function(N_len), NoneVal),
                      Function(N_count), NoneVal),
      PluginStore_add(PluginStore_add(<<>>, Function(N_len), NoneVal),
                      IntVal(0), StrVal(N_count)) }

\* body holds the tree; done, the tree after each visit
InitInjector ==
    /\ content \in InjectExprs(MaxDepth)
    /\ body = <<content>>
    /\ plugins \in InjectStores
    /\ env = <<>>
    /\ pc = "idle"
    /\ ip = 1
    /\ pending = ""
    /\ outcome = NoOutcome
    /\ envBefore = <<>>
    /\ calls = <<>>
    /\ done = <<>>
    /\ last = NoOp

\* EnvironmentInjector(self.plugin_store).visit(expr): the tree is changed
\* in place
InjectorVisit ==
    /\ Len(done) < MaxVisits
    /\ body' = <<inject(body[1], plugins)>>
    /\ done' = Append(done, inject(body[1], plugins))
    /\ UNCHANGED <<env, plugins, pc, content, ip, pending, outcome, envBefore, calls, last>>

NextInjector == InjectorVisit

SpecInjector == InitInjector /\ [][NextInjector]_vars

-----------------------------------------------------------------------------
(* PluginStore on its own: any sequence of its operations *)

\* the values the host stores: two functions and a number
StoreValues == {Function(N_len), Function(N_count), IntVal(0)}

\* the names the host gives: none, the empty string, 'len', 'a'
StoreNameArgs == {NoneVal, StrVal(<<>>), StrVal(N_len), StrVal(K_a)}

\* the names the host asks for
StoreNames == {<<>>, N_len, N_count, K_a}

InitStore ==
    /\ plugins = <<>>
    /\ env = <<>>
    /\ pc = "idle"
    /\ content = NotPython
    /\ body = <<>>
    /\ ip = 1
    /\ pending = ""
    /\ outcome = NoOutcome
    /\ envBefore = <<>>
    /\ calls = <<>>
    /\ done = <<>>
    /\ last = NoOp

\* the operation op of the store, given key (and val), left the store as
\* `after`, returned ret or raised exc
StoreApplied(op, key, val, after, ret, exc) ==
    /\ plugins' = after
    /\ last' = [op |-> op, key |-> key, val |-> val, pre |-> plugins,
                ret |-> ret, exc |-> exc]
    /\ UNCHANGED <<env, pc, content, body, ip, pending, outcome, envBefore, calls, done>>

StoreAdd(arg, name) ==
    StoreApplied("add", name, arg, PluginStore_add(plugins, arg, name),
                 NoneVal, PluginStore_add_exc(arg, name))

\* register(fn, name=name): returns fn
StoreRegister(fn, name) ==
    StoreApplied("register", name, fn, PluginStore_register(plugins, fn, name),
                 fn, PluginStore_add_exc(fn, name))

\* @register or @register(name=name) above the definition of fn
StoreDecorate(fn, name) ==
    StoreApplied("decorate", name, fn, PluginStore_register(plugins, fn, name),
                 fn, PluginStore_add_exc(fn, name))

StoreHas(n) ==
    StoreApplied("has", n, NoneVal, plugins, PluginStore_has(plugins, n), "")

\* get(name): self.plugins[name], KeyError for a name that is not there
StoreGet(n) ==
    IF PluginStore_has(plugins, n)
    THEN StoreApplied("get", n, NoneVal, plugins, PluginStore_get(plugins, n), "")
    ELSE StoreApplied("get", n, NoneVal, plugins, NoneVal, KeyError)

StoreClear ==
    StoreApplied("clear", <<>>, NoneVal, PluginStore_clear(plugins), NoneVal, "")

NextStore ==
    \/ \E v \in StoreValues, n \in StoreNameArgs : StoreAdd(v, n)
    \/ \E v \in StoreValues, n \in StoreNameArgs : StoreRegister(v, n)
    \/ \E v \in StoreValues, n \in StoreNameArgs : StoreDecorate(v, n)
    \/ \E n \in StoreNames : StoreHas(n)
    \/ \E n \in StoreNames : StoreGet(n)
    \/ StoreClear

SpecStore == InitStore /\ [][NextStore]_vars

-----------------------------------------------------------------------------
(* The whitelist of node shapes *)

RECURSIVE AllowedExpr(_)
AllowedExpr(node) ==
    CASE node.node \in {"Name", "Num", "NameConstant", "Str"} -> TRUE
      [] node.node \in {"List", "Set"} -> \A i \in DOMAIN node.elts : AllowedExpr(node.elts[i])
      [] node.node = "Dict" ->
            /\ \A i \in DOMAIN node.keys : AllowedExpr(node.keys[i])
            /\ \A i \in DOMAIN node.values : AllowedExpr(node.values[i])
      [] node.node = "Call" ->
            /\ node.func.node = "Name"
            /\ \A i \in DOMAIN node.args : AllowedExpr(node.args[i])
            /\ \A i \in DOMAIN node.keywords : AllowedExpr(node.keywords[i].value)
      [] OTHER -> FALSE

AllowedStmt(stmt) ==
    CASE stmt.node = "Assign" ->
            /\ Len(stmt.targets) = 1
            /\ stmt.targets[1].node = "Name"
            /\ AllowedExpr(stmt.value)
      [] stmt.node = "Expr" -> stmt.value.node = "Call" /\ AllowedExpr(stmt.value)
      [] OTHER -> FALSE

AllowedModule(root) == \A i \in DOMAIN root.body : AllowedStmt(root.body[i])

\* no Assign of the module has a registered plugin's name or a hidden name
\* as its target
LegalTargets(root, store) ==
    \A i \in DOMAIN root.body :
        (root.body[i].node = "Assign" /\ Len(root.body[i].targets) = 1
            /\ root.body[i].targets[1].node = "Name")
        => /\ ~PluginStore_has(store, root.body[i].targets[1].id)
           /\ ~hidden(root.body[i].targets[1].id)

IsModule(c) == c.node = "Module"

\* the statement the i-th entry of done is about, and the environment
\* right after it
StmtAt(i) == content.body[i]
EnvAfter(i) == IF i < Len(done) THEN done[i + 1].pre ELSE env
Failed(i) == done[i].exc # ""
IsAssign(stmt) == stmt.node = "Assign"
Target(stmt) == stmt.targets[1].id

-----------------------------------------------------------------------------
(* Properties *)

\* C1: once Parser.parse has returned or raised, whatever the error, the
\* environment holds neither '__builtins__' nor '__env__'.
C1_SentinelsRemoved ==
    pc \in {"returned", "idle"} =>
        K_builtins \notin Keys(env) /\ K_env \notin Keys(env)

\* a parse that ended with the protected-key error of a plugin
C1_Witness ==
    /\ pc = "returned"
    /\ outcome = Raised(UnsafeKey)
    /\ Len(calls) > 0
    /\ Len(done) > 0

\* C2: a submission with a disallowed construct in any statement is never
\* executed: parse raises, the environment is what it was before the call
\* and no plugin was invoked.
C2_ValidationBeforeExecution ==
    (IsModule(content) /\ ~AllowedModule(content)) =>
        /\ pc = "returned"
        /\ outcome.kind = "raised"
        /\ env = envBefore
        /\ calls = <<>>
        /\ done = <<>>

\* fn2() then a = 1 + 1, with fn2 registered: the first statement alone
\* would have invoked a plugin
C2_Witness ==
    /\ pc = "returned"
    /\ IsModule(content)
    /\ Len(content.body) = 2
    /\ content.body[1] = Expr(Call(Name(N_fn2), <<>>, <<>>))
    /\ ~AllowedStmt(content.body[2])
    /\ PluginStore_has(plugins, N_fn2)

\* C3 as stated: the validator accepts a tree iff every node has a
\* whitelisted shape.
C3_AcceptsIffWhitelisted ==
    pc = "returned" => (outcome.kind = "returned" <=> AllowedModule(content))

\* C3 amended: the validator accepts a tree iff every node has a whitelisted
\* shape and no Assign target is a registered plugin's name or a hidden name.
C3_AcceptsIffWhitelistedAndLegalTargets ==
    pc = "returned" =>
        (outcome.kind = "returned"
            <=> AllowedModule(content) /\ LegalTargets(content, plugins))

\* an accepted tree with a call in a keyword argument of a call
C3_Witness ==
    /\ pc = "returned"
    /\ outcome.kind = "returned"
    /\ IsModule(content)
    /\ content.body[1].node = "Expr"
    /\ Len(content.body[1].value.keywords) = 1
    /\ content.body[1].value.keywords[1].value.node = "Call"
    /\ Len(content.body[1].value.keywords[1].value.args) = 1

\* C4: an executed Assign whose target is bound when the statement starts
\* fails with the illegal-assignment error, ends the execution, and the name
\* keeps its value.
C4_NoReassignment ==
    \A i \in DOMAIN done :
        (IsAssign(StmtAt(i)) /\ Target(StmtAt(i)) \in Keys(done[i].pre)) =>
            /\ done[i].exc = IllegalExisting
            /\ i = Len(done)
            /\ pc # "executing"
            /\ Target(StmtAt(i)) \in Keys(env)
            /\ DictGet(env, Target(StmtAt(i))) = DictGet(done[i].pre, Target(StmtAt(i)))

\* a = ... refused in a later submission than the one that bound a, after
\* a first statement that succeeded
C4_Witness ==
    /\ pc = "returned"
    /\ outcome = Raised(IllegalExisting)
    /\ Len(done) = 2
    /\ Target(StmtAt(2)) = K_a
    /\ K_a \in Keys(envBefore)

\* C5: statements run in source order on the environment the earlier ones
\* left; a failing statement is the last one executed and binds nothing; the
\* bindings of the statements before it stay.
C5_NoRollbackAbortRest ==
    /\ Len(done) > 0 =>
        /\ Len(done) <= Len(content.body)
        /\ done[1].pre = prepare_environment(envBefore)
        /\ pc = "executing" => ip = Len(done) + 1 /\ body = content.body
    /\ \A i \in DOMAIN done :
        /\ Failed(i) => i = Len(done) /\ pc # "executing"
        /\ (Failed(i) /\ IsAssign(StmtAt(i)) /\ Target(StmtAt(i)) \notin Keys(done[i].pre))
              => Target(StmtAt(i)) \notin Keys(env)
        /\ (~Failed(i) /\ IsAssign(StmtAt(i))) =>
              /\ Target(StmtAt(i)) \in Keys(env)
              /\ DictGet(env, Target(StmtAt(i))) = DictGet(EnvAfter(i), Target(StmtAt(i)))
        /\ (~Failed(i) /\ IsAssign(StmtAt(i)) /\ StmtAt(i).value.node = "Name"
                /\ ~PluginStore_has(plugins, StmtAt(i).value.id)) =>
              /\ StmtAt(i).value.id \in Keys(done[i].pre)
              /\ DictGet(EnvAfter(i), Target(StmtAt(i)))
                    = DictGet(done[i].pre, StmtAt(i).value.id)

\* a = len; b = a([]); b = a: the second statement fails, a stays bound and
\* the third statement is not executed
C5_Witness ==
    /\ pc = "returned"
    /\ outcome.kind = "raised"
    /\ IsModule(content)
    /\ Len(content.body) = 3
    /\ Len(done) = 2
    /\ Failed(2)
    /\ K_a \in Keys(env)
    /\ K_a \notin Keys(envBefore)
    /\ K_b \notin Keys(env)

\* whether the expression holds a call whose callee is no registered name
RECURSIVE CallsUnregistered(_, _)
CallsUnregistered(node, store) ==
    CASE node.node = "Call" ->
            \/ ~PluginStore_has(store, node.func.id)
            \/ \E i \in DOMAIN node.args : CallsUnregistered(node.args[i], store)
            \/ \E i \in DOMAIN node.keywords :
                    CallsUnregistered(node.keywords[i].value, store)
      [] node.node = "List" ->
            \E i \in DOMAIN node.elts : CallsUnregistered(node.elts[i], store)
      [] OTHER -> FALSE

\* C6: every call that is evaluated, at any depth, names a registered
\* plugin: nothing is invoked through another name (a variable bound to a
\* plugin included), and a statement holding a call to an unregistered name
\* fails and binds nothing.
C6_OnlyRegisteredCallees ==
    /\ \A i \in DOMAIN calls : PluginStore_has(plugins, calls[i].via)
    /\ \A i \in DOMAIN done :
          CallsUnregistered(StmtAt(i).value, plugins) =>
              /\ Failed(i)
              /\ i = Len(done)
              /\ IsAssign(StmtAt(i)) /\ Target(StmtAt(i)) \notin Keys(done[i].pre)
                    => Target(StmtAt(i)) \notin Keys(env)

\* C7: through the view no hidden key is observable: containment is false,
\* iteration, items() and the string form yield no hidden key, and len is the
\* number of keys that are not hidden.
C7_HiddenNeverObservable ==
    /\ \A k \in ViewKeys : hidden(k) => ~SafeEnv_contains(env, k)
    /\ \A i \in DOMAIN SafeEnv_iter(env) : ~hidden(SafeEnv_iter(env)[i])
    /\ \A i \in DOMAIN SafeEnv_items(env) : ~hidden(SafeEnv_items(env)[i].key)
    /\ \A i \in DOMAIN SafeEnv_repr(env) : ~hidden(SafeEnv_repr(env)[i].key)
    /\ SafeEnv_len(env) = Cardinality({k \in Keys(env) : ~hidden(k)})
    /\ SafeEnv_len(env) = Len(SafeEnv_iter(env))

\* after an operation, a backing dict with a hidden entry inserted after a
\* visible one
C7_Witness ==
    /\ last.op = "setdefault"
    /\ Len(env) = 3
    /\ ~hidden(env[1].key)
    /\ hidden(env[2].key)
    /\ ~hidden(env[3].key)

\* C8: get, set, delete, setdefault and pop without default on a hidden key
\* raise the unsafe-key error, pop with a default returns the default, and
\* in each case the backing dict is unchanged.
C8_HiddenKeyOperationsFail ==
    (last.op # "none" /\ hidden(last.key)) =>
        /\ last.op \in {"getitem", "setitem", "delitem", "setdefault", "pop"}
              => last.exc = UnsafeKey /\ env = last.pre
        /\ last.op = "pop_default"
              => last.exc = "" /\ last.ret = last.val /\ env = last.pre

\* del on a hidden key that is in the backing dict
C8_Witness ==
    /\ last.op = "delitem"
    /\ last.key = K_hid
    /\ K_hid \in Keys(last.pre)

\* C9: popitem returns the last visible entry of the backing dict and leaves
\* every other entry, hidden or visible, with its value and in its place;
\* with no visible entry it raises KeyError and the dict is unchanged.
C9_PopitemLastVisible ==
    last.op = "popitem" =>
        LET vis == SelectSeq(last.pre, Visible)
        IN  IF vis # <<>>
            THEN /\ last.exc = ""
                 /\ last.ret = vis[Len(vis)]
                 /\ env = SelectSeq(last.pre, LAMBDA item : item.key # vis[Len(vis)].key)
            ELSE /\ last.exc = KeyError
                 /\ env = last.pre

\* popitem on a dict whose only visible entry is followed by two hidden ones
C9_Witness ==
    /\ last.op = "popitem"
    /\ last.exc = ""
    /\ Len(last.pre) = 3
    /\ ~hidden(last.pre[1].key)
    /\ hidden(last.pre[2].key)
    /\ hidden(last.pre[3].key)

\* C10: a plugin declared with (*, env) that runs in a submission was given
\* the protected view of the parser's environment; the view shows it no
\* sentinel, and count() returns the number of bindings other than the
\* sentinels.
C10_PluginReceivesView ==
    /\ \A i \in DOMAIN calls :
          K_kwenv \in kwonlyargs(Function(calls[i].fn))
              => KwValue(calls[i].kwargs, K_kwenv) = EnvHandle
    /\ \A i \in DOMAIN calls : \A j \in DOMAIN calls[i].items :
          calls[i].items[j].key \notin {K_builtins, K_env}
    /\ \A i \in DOMAIN done :
          (StmtAt(i) = Assign(<<Name(K_b)>>, Call(Name(N_count), <<>>, <<>>)) /\ ~Failed(i))
              => DictGet(EnvAfter(i), K_b)
                    = IntVal(Cardinality(Keys(done[i].pre) \ {K_builtins, K_env}))

\* C11: when Parser.parse returns normally, the value it returns is the
\* environment: a dict with the bindings Parser.env has after the call.
C11_ParseReturnsEnvironment ==
    (pc = "returned" /\ outcome.kind = "returned") =>
        outcome.value = [type |-> "dict", items |-> env]

\* whether some Assign of the module has a registered plugin's name or a
\* hidden name as its target
HasIllegalTarget(root, store) ==
    \E i \in DOMAIN root.body :
        /\ IsAssign(root.body[i])
        /\ \/ PluginStore_has(store, Target(root.body[i]))
           \/ hidden(Target(root.body[i]))

\* C12: no Assign binds a name that is registered as a plugin or that is
\* hidden; a submission with such a target anywhere is rejected before it
\* runs, with the environment as it was; a target with the marker at one end
\* only ('__a', 'a__') is not refused for its name and binds when it is new.
C12_TargetsNeverPluginOrHidden ==
    /\ \A i \in DOMAIN done :
          (IsAssign(StmtAt(i)) /\ ~Failed(i)) =>
              /\ ~PluginStore_has(plugins, Target(StmtAt(i)))
              /\ ~hidden(Target(StmtAt(i)))
    /\ (IsModule(content) /\ HasIllegalTarget(content, plugins)) =>
          /\ pc = "returned"
          /\ outcome \in {Raised(IllegalPlugin), Raised(IllegalDunder)}
          /\ env = envBefore
          /\ done = <<>>
    /\ (IsModule(content) /\ ~HasIllegalTarget(content, plugins)) =>
          outcome \notin {Raised(IllegalPlugin), Raised(IllegalDunder)}
    /\ \A i \in DOMAIN done :
          (Target(StmtAt(i)) \in {K_ua, K_au} /\ Target(StmtAt(i)) \notin Keys(done[i].pre)) =>
              /\ ~Failed(i)
              /\ Target(StmtAt(i)) \in Keys(env)
              /\ DictGet(env, Target(StmtAt(i))) = IntVal(0)

\* a = 0 then len = 0 with len registered: refused whole, a stays unbound;
\* in an environment where '__a' and 'a__' are bound
C12_Witness ==
    /\ pc = "returned"
    /\ content = Module(<<Assign(<<Name(K_a)>>, Num(0)), Assign(<<Name(N_len)>>, Num(0))>>)
    /\ outcome = Raised(IllegalPlugin)
    /\ K_a \notin Keys(env)
    /\ {K_ua, K_au} \subseteq Keys(env)

\* the hidden names as C13 states them
MarkedAndLong(id) ==
    /\ startswith(id, <<U, U>>)
    /\ endswith(id, <<U, U>>)
    /\ Len(id) >= 4

\* C13: the view refuses a key, and the validator refuses an Assign target
\* as a double-underscore name, exactly when the name starts with '__', ends
\* with '__' and has at least 4 characters; '__' and '___' are visible.
C13_HiddenIffMarkedAndLong ==
    /\ last.op = "setitem" =>
          /\ hidden(last.key) <=> MarkedAndLong(last.key)
          /\ last.exc = UnsafeKey <=> MarkedAndLong(last.key)
    /\ pc = "returned" =>
          (outcome = Raised(IllegalDunder) <=> MarkedAndLong(Target(content.body[1])))

\* C14: update gives every visible key of its source the value of the last
\* pair that has this key (the positional source first, keyword arguments
\* after it); it touches no hidden key: a hidden entry of the backing dict
\* keeps its value, no hidden entry appears; entries the source does not
\* name stay as they were.
C14_UpdateSkipsHidden ==
    last.op = "update" =>
        LET src == last.val.mapping \o last.val.kwargs
        IN  /\ last.exc = ""
            /\ \A i \in DOMAIN src :
                  (~hidden(src[i].key) /\ \A j \in DOMAIN src : j > i => src[j].key # src[i].key)
                      => /\ src[i].key \in Keys(env)
                         /\ DictGet(env, src[i].key) = src[i].val
            /\ \A k \in Keys(env) \cup Keys(last.pre) :
                  (hidden(k) \/ k \notin Keys(src))
                      => /\ k \in Keys(env)
                         /\ k \in Keys(last.pre)
                         /\ DictGet(env, k) = DictGet(last.pre, k)

\* update({'__h__': 1}, a=0) on a dict where '__h__' is 0 and a is 1
C14_Witness ==
    /\ last.op = "update"
    /\ K_hid \in Keys(last.pre)
    /\ DictGet(last.pre, K_hid) = IntVal(0)
    /\ K_a \in Keys(last.pre)
    /\ DictGet(last.pre, K_a) = IntVal(1)
    /\ last.val.mapping = <<[key |-> K_hid, val |-> IntVal(1)]>>
    /\ last.val.kwargs = <<[key |-> K_a, val |-> IntVal(0)]>>
    /\ DictGet(env, K_a) = IntVal(0)

\* C15: after clear the backing dict holds no visible key, and every hidden
\* entry it had is still there with its value, the hidden entries in the
\* order they were in.
C15_ClearKeepsHidden ==
    last.op = "clear" =>
        /\ last.exc = ""
        /\ \A k \in Keys(env) : hidden(k)
        /\ \A k \in Keys(last.pre) :
              hidden(k) => k \in Keys(env) /\ DictGet(env, k) = DictGet(last.pre, k)
        /\ Keys(env) \subseteq Keys(last.pre)
        /\ \A k1, k2 \in Keys(env) :
              IndexOf(env, k1) < IndexOf(env, k2)
                  <=> IndexOf(last.pre, k1) < IndexOf(last.pre, k2)

\* clear on a dict with a visible entry between two hidden ones
C15_Witness ==
    /\ last.op = "clear"
    /\ Len(last.pre) = 3
    /\ hidden(last.pre[1].key)
    /\ ~hidden(last.pre[2].key)
    /\ hidden(last.pre[3].key)
    /\ Len(env) = 2

\* C16: after add(value, name), register(fn, name=name) or the decorator
\* form, has(name) is true and get(name) is the value; with no name given the
\* value is found under its own name; an earlier binding of the name is
\* replaced; after clear has is false for every name; get of an absent name
\* raises.
C16_PluginStoreContract ==
    /\ (last.op \in {"add", "register", "decorate"} /\ last.key # NoneVal) =>
          /\ last.exc = ""
          /\ PluginStore_has(plugins, last.key.s)
          /\ PluginStore_get(plugins, last.key.s) = last.val
    /\ (last.op \in {"add", "register", "decorate"} /\ last.key = NoneVal
            /\ has_name(last.val)) =>
          /\ last.exc = ""
          /\ PluginStore_has(plugins, last.val.name)
          /\ PluginStore_get(plugins, last.val.name) = last.val
    /\ last.op = "clear" => \A n \in StoreNames : ~PluginStore_has(plugins, n)
    /\ last.op = "has" => last.ret = (last.key \in DOMAIN last.pre)
    /\ last.op = "get" =>
          IF last.key \in DOMAIN last.pre
          THEN last.exc = "" /\ last.ret = last.pre[last.key]
          ELSE last.exc = KeyError

\* what evaluating the right-hand side of the i-th executed statement does
\* to the environment the statement started in
RhsAt(i) == evaluate_expr(StmtAt(i).value, done[i].pre, <<>>, plugins)

\* C17: an Assign evaluates its right-hand side and then tests the target:
\* when the target is bound once the right-hand side has been evaluated (by
\* an earlier statement, or by the plugin the right-hand side calls), the
\* statement fails with the illegal-assignment error and the target keeps
\* the value it has at that moment.
C17_AssignEvaluatesThenChecks ==
    \A i \in DOMAIN done :
        (IsAssign(StmtAt(i)) /\ RhsAt(i).exc = "" /\ Target(StmtAt(i)) \in Keys(RhsAt(i).env)) =>
            /\ done[i].exc = IllegalExisting
            /\ Target(StmtAt(i)) \in Keys(EnvAfter(i))
            /\ DictGet(EnvAfter(i), Target(StmtAt(i)))
                  = DictGet(RhsAt(i).env, Target(StmtAt(i)))

\* whether a call names a registered callable declared with (*, env)
DeclaresEnv(node, store) ==
    /\ PluginStore_has(store, node.func.id)
    /\ callable(PluginStore_get(store, node.func.id))
    /\ K_kwenv \in kwonlyargs(PluginStore_get(store, node.func.id))

\* the number of keywords env=__env__ of a call
EnvKeywords(node) ==
    Cardinality({i \in DOMAIN node.keywords : node.keywords[i] = keyword(K_kwenv, Name(K_env))})

\* whether every call of the tree to a plugin that declares env, wherever it
\* stands, has the keyword env=__env__
RECURSIVE EveryCallInjected(_, _)
EveryCallInjected(node, store) ==
    CASE node.node = "Call" ->
            /\ DeclaresEnv(node, store) => EnvKeywords(node) >= 1
            /\ \A i \in DOMAIN node.args : EveryCallInjected(node.args[i], store)
            /\ \A i \in DOMAIN node.keywords :
                    EveryCallInjected(node.keywords[i].value, store)
      [] node.node \in {"List", "Set"} ->
            \A i \in DOMAIN node.elts : EveryCallInjected(node.elts[i], store)
      [] node.node = "Dict" ->
            /\ \A i \in DOMAIN node.keys : EveryCallInjected(node.keys[i], store)
            /\ \A i \in DOMAIN node.values : EveryCallInjected(node.values[i], store)
      [] OTHER -> TRUE

\* C18: after the injector's visit, every call to a plugin that declares env
\* carries the keyword env=__env__, whether the call is the expression
\* itself, an element of a list, set or dict literal, or an argument (by
\* position or by keyword) of another call.
C18_InjectorReachesEveryCall ==
    Len(done) >= 1 => EveryCallInjected(done[1], plugins)

\* C19: a second visit of the injector leaves the tree as the first visit
\* left it: a call to a plugin that declares env has one keyword
\* env=__env__, not two.
C19_InjectorIdempotent ==
    Len(done) >= 2 =>
        /\ done[2] = done[1]
        /\ (done[2].node = "Call" /\ DeclaresEnv(done[2], plugins)) => EnvKeywords(done[2]) = 1

\* whether the name resolves when the i-th executed statement starts, and
\* what C20 says it resolves to: the registry entry if there is one, else
\* the binding of the environment
Resolves(id, i) == PluginStore_has(plugins, id) \/ id \in Keys(done[i].pre)
Resolved(id, i) ==
    IF PluginStore_has(plugins, id) THEN PluginStore_get(plugins, id)
    ELSE DictGet(done[i].pre, id)

\* C20: in an evaluated expression a name that is registered resolves to
\* the registry's entry, also when the environment binds the same name; any
\* other name resolves to what the environment binds it to; a name bound in
\* neither fails the statement with the name error and the target stays
\* unbound.  (Stated for x = name and x = [name] with x not yet bound.)
C20_NameResolution ==
    \A i \in DOMAIN done :
        (IsAssign(StmtAt(i)) /\ Target(StmtAt(i)) \notin Keys(done[i].pre)) =>
            LET value == StmtAt(i).value
                target == Target(StmtAt(i))
            IN  /\ (value.node = "Name" /\ Resolves(value.id, i)) =>
                      /\ ~Failed(i)
                      /\ DictGet(EnvAfter(i), target) = Resolved(value.id, i)
                /\ (value.node = "Name" /\ ~Resolves(value.id, i)) =>
                      /\ done[i].exc = NameError
                      /\ target \notin Keys(env)
                /\ (value.node = "List" /\ Len(value.elts) = 1 /\ value.elts[1].node = "Name"
                        /\ Resolves(value.elts[1].id, i)) =>
                      /\ ~Failed(i)
                      /\ DictGet(EnvAfter(i), target) = ListVal(<<Resolved(value.elts[1].id, i)>>)
                /\ (value.node = "List" /\ Len(value.elts) = 1 /\ value.elts[1].node = "Name"
                        /\ ~Resolves(value.elts[1].id, i)) =>
                      /\ done[i].exc = NameError
                      /\ target \notin Keys(env)

\* a = len executed while the environment binds len to 0 and the registry
\* holds the plugin len, after a submission where len resolved to nothing
C20_Witness ==
    /\ pc = "returned"
    /\ outcome.kind = "returned"
    /\ content = Module(<<Assign(<<Name(K_a)>>, Name(N_len))>>)
    /\ Len(done) = 1
    /\ N_len \in Keys(done[1].pre)
    /\ DictGet(done[1].pre, N_len) = IntVal(0)
    /\ PluginStore_has(plugins, N_len)
    /\ DictGet(env, K_a) = Function(N_len)

\* whether a value is, or is a list that holds, the no-builtins mapping or
\* the environment handle
IsSentinelValue(val) ==
    \/ val \in {NoBuiltins, EnvHandle}
    \/ /\ val.type = "list"
       /\ \E j \in DOMAIN val.elts : val.elts[j] \in {NoBuiltins, EnvHandle}

\* C21: no expression of a submission evaluates to the value of a sentinel:
\* no visible entry of the environment holds the no-builtins mapping or the
\* environment handle, during a submission or after it, and no plugin is
\* called with one of them as a positional argument.
C21_NoSentinelLeak ==
    /\ \A i \in DOMAIN env : ~hidden(env[i].key) => ~IsSentinelValue(env[i].val)
    /\ \A i \in DOMAIN calls : \A j \in DOMAIN calls[i].args :
          ~IsSentinelValue(calls[i].args[j])

\* whether the environment holds both sentinels as prepare_environment
\* bound them
HoldsSentinels(e) ==
    /\ K_builtins \in Keys(e)
    /\ K_env \in Keys(e)
    /\ DictGet(e, K_builtins) = NoBuiltins
    /\ DictGet(e, K_env) = EnvHandle

\* C22: from the first statement of a submission to its cleanup the
\* environment holds both sentinels with the values they were given,
\* whatever the plugins do through their view; cleanup finds both; and no
\* statement of another submission runs in between: a call of a plugin that
\* holds the parser binds nothing in the environment.
C22_SentinelsHeldWhileExecuting ==
    /\ pc \in {"executing", "cleanup"} => HoldsSentinels(env)
    /\ \A i \in DOMAIN done : HoldsSentinels(done[i].pre)
    /\ \A i \in DOMAIN done :
          StmtAt(i) = Expr(Call(Name(N_again), <<>>, <<>>)) =>
              (K_b \in Keys(EnvAfter(i)) <=> K_b \in Keys(done[i].pre))

====
